---------------------------- MODULE Spec2Model ----------------------------
(* A model of src/src/uci.cpp: the text front end of the engine.         *)
(*                                                                         *)
(* A std::string is a sequence of one-character strings; an istringstream *)
(* read with operator>> is the sequence of its whitespace-free tokens.    *)
(* The control thread runs UCI::loop; the search engine is a second       *)
(* process that finishes a started search at a time of its own choosing.  *)
(* position() and setoption() have no caller in UCI::loop: SpecDispatch   *)
(* lets the control thread run them between two go() calls, which is the  *)
(* only place a dispatcher on that thread could run them.                 *)
(* SpecLive is Spec with a fairly scheduled control thread, SpecCodec     *)
(* calls to_move and move on positions set up by position(), and SpecPure *)
(* calls UCI::square, UCI::move and UCI::value on every argument.         *)
EXTENDS Integers, Sequences, FiniteSets, TLC

(***************************************************************************)
(* Bounds of the model                                                     *)
(***************************************************************************)
\* longest batch source (lines of the game file)
MaxFens == 2
\* most position/setoption commands handled in one session
MaxCmds == 2
\* longest batch source of a session in which the dispatcher handles commands
MaxDispatchFens == 1

(***************************************************************************)
(* Text                                                                    *)
(***************************************************************************)
StartFEN == <<"3", "r", "3", "k", "/", "p", "5", "p", "p", "/", "8", "/", "8", "/", "5", "P", "2", "/", "3", "Q", "p", "1", "P", "1", "/", "P", "2", "p", "3", "P", "/", "3", "R", "2", "K", "1", " ", "b", " ", "-", " ", "-", " ", "0", " ", "3", "3">>

kDoubleQuote == "\""

kSpace == " "

\* the keyword tokens the handlers compare against
kStartpos == <<"s", "t", "a", "r", "t", "p", "o", "s">>

kFen == <<"f", "e", "n">>

kMoves == <<"m", "o", "v", "e", "s">>

kValue == <<"v", "a", "l", "u", "e">>

kNoSuchOption == <<"N", "o", " ", "s", "u", "c", "h", " ", "o", "p", "t", "i", "o", "n", ":", " ">>

\* the option names uci.cpp reads
kHash == <<"H", "a", "s", "h">>

kSyzygyPath == <<"S", "y", "z", "y", "g", "y", "P", "a", "t", "h">>

kChess960 == <<"U", "C", "I", "_", "C", "h", "e", "s", "s", "9", "6", "0">>

\* tolower() on the characters a move token can hold in its fifth place
ToLower(c) ==
  CASE c = "Q" -> "q" [] c = "R" -> "r" [] c = "B" -> "b" [] c = "N" -> "n"
    [] c = "K" -> "k" [] c = "P" -> "p" [] OTHER -> c

(***************************************************************************)
(* Squares and moves (types.h: a move is a 16 bit number)                  *)
(***************************************************************************)
FILE_C == 2

FILE_G == 6

MOVE_NONE == 0

MOVE_NULL == 65

NORMAL == 0

PROMOTION == 16384

ENPASSANT == 32768

CASTLING == 49152

file_of(s) == s % 8

rank_of(s) == s \div 8

make_square(f, r) == r * 8 + f

from_sq(m) == (m \div 64) % 64

to_sq(m) == m % 64

type_of(m) == (m \div 16384) * 16384

promotion_type(m) == ((m \div 4096) % 4) + 2

make_move(from, to) == from * 64 + to

\* make<T>(from, to, pt): pt is KNIGHT = 2 .. QUEEN = 5
make(T, from, to, pt) == T + (pt - 2) * 4096 + from * 64 + to

(***************************************************************************)
(* The codec                                                               *)
(***************************************************************************)
FileChars == <<"a", "b", "c", "d", "e", "f", "g", "h">>

RankChars == <<"1", "2", "3", "4", "5", "6", "7", "8">>


\* UCI::square that writes the rank before the file
squareRankFirst(s) == <<RankChars[rank_of(s) + 1], FileChars[file_of(s) + 1]>>

\* UCI::square
square(s) == <<FileChars[file_of(s) + 1], RankChars[rank_of(s) + 1]>>

\* " pnbrqk"[pt]
PieceLetter(pt) == <<" ", "p", "n", "b", "r", "q", "k">>[pt + 1]


\* UCI::move that leaves out the letter of the promotion piece
moveNoPromotionLetter(m, chess960) ==
  LET from == from_sq(m)
      to0  == to_sq(m)
      to   == IF type_of(m) = CASTLING /\ ~chess960
                THEN make_square(IF to0 > from THEN FILE_G ELSE FILE_C, rank_of(from))
                ELSE to0
  IN  IF m = MOVE_NONE THEN <<"(", "n", "o", "n", "e", ")">>
      ELSE IF m = MOVE_NULL THEN <<"0", "0", "0", "0">>
      ELSE square(from) \o square(to)

\* UCI::move that rewrites every castling move to the king side
moveKingSideOnly(m, chess960) ==
  LET from == from_sq(m)
      to0  == to_sq(m)
      to   == IF type_of(m) = CASTLING /\ ~chess960
                THEN make_square(FILE_G, rank_of(from))
                ELSE to0
      text == square(from) \o square(to)
  IN  IF m = MOVE_NONE THEN <<"(", "n", "o", "n", "e", ")">>
      ELSE IF m = MOVE_NULL THEN <<"0", "0", "0", "0">>
      ELSE IF type_of(m) = PROMOTION
             THEN Append(text, PieceLetter(promotion_type(m)))
             ELSE text

\* UCI::move
move(m, chess960) ==
  LET from == from_sq(m)
      to0  == to_sq(m)
      to   == IF type_of(m) = CASTLING /\ ~chess960
                THEN make_square(IF to0 > from THEN FILE_G ELSE FILE_C, rank_of(from))
                ELSE to0
      text == square(from) \o square(to)
  IN  IF m = MOVE_NONE THEN <<"(", "n", "o", "n", "e", ")">>
      ELSE IF m = MOVE_NULL THEN <<"0", "0", "0", "0">>
      ELSE IF type_of(m) = PROMOTION
             THEN Append(text, PieceLetter(promotion_type(m)))
             ELSE text


\* the scan that goes on after a match and returns the last one
RECURSIVE ScanLegalLast(_, _, _)
ScanLegalLast(legal, str, chess960) ==
  IF legal = <<>> THEN MOVE_NONE
  ELSE LET later == ScanLegalLast(Tail(legal), str, chess960)
       IN  IF later # MOVE_NONE THEN later
           ELSE IF str = move(Head(legal), chess960) THEN Head(legal)
           ELSE MOVE_NONE

\* UCI::to_move: the scan over the legal-move list `legal` of the position
RECURSIVE ScanLegal(_, _, _)
ScanLegal(legal, str, chess960) ==
  IF legal = <<>> THEN MOVE_NONE
  ELSE IF str = move(Head(legal), chess960) THEN Head(legal)
  ELSE ScanLegal(Tail(legal), str, chess960)

\* str[4] = tolower(str[4]) for a token of length 5
LowerFifth(str) ==
  IF Len(str) = 5 THEN [str EXCEPT ![5] = ToLower(str[5])] ELSE str

(***************************************************************************)
(* Position and StateInfo (position.h, movegen.h: outside this file)       *)
(***************************************************************************)
\* a default-constructed Position, before any set()
NoPos == [set |-> FALSE]

\* a value-initialised StateInfo
BlankStateInfo == [ply |-> 0, move |-> MOVE_NONE, board |-> <<>>]

\* the whitespace-separated fields of a string, as operator>> reads them
RECURSIVE SplitWS(_, _, _)
SplitWS(str, cur, acc) ==
  IF str = <<>> THEN (IF cur = <<>> THEN acc ELSE Append(acc, cur))
  ELSE IF Head(str) = " "
         THEN SplitWS(Tail(str), <<>>, IF cur = <<>> THEN acc ELSE Append(acc, cur))
         ELSE SplitWS(Tail(str), Append(cur, Head(str)), acc)

FenField(fields, k) == IF k <= Len(fields) THEN fields[k] ELSE <<>>

\* Position::set(fen, isChess960, si, th): the position the FEN text describes
PosSet(fen, isChess960) ==
  LET f == SplitWS(fen, <<>>, <<>>)
  IN  [set       |-> TRUE,
       placement |-> FenField(f, 1),
       side      |-> FenField(f, 2),
       castling  |-> FenField(f, 3),
       ep        |-> FenField(f, 4),
       rule50    |-> FenField(f, 5),
       fullmove  |-> FenField(f, 6),
       chess960  |-> isChess960,
       moves     |-> <<>>]

\* what set() writes into the root StateInfo it is given
RootStateInfo(p) == [ply |-> 0, move |-> MOVE_NONE, board |-> p.placement]

OtherSide(c) == IF c = <<"w">> THEN <<"b">> ELSE <<"w">>

\* Position::do_move(m, newSt): the position after m, and the record in newSt
DoMove(p, m) == [p EXCEPT !.side = OtherSide(@), !.moves = Append(@, m)]

MoveStateInfo(p, m) == [ply |-> Len(p.moves) + 1, move |-> m, board |-> p.placement]

pos_is_chess960(p) == p.chess960

\* The legal-move generator is outside this file.  The model knows four
\* boards and, for each side, the moves the generator lists there in its
\* order; a move stays legal until a move has left or entered its origin
\* square (for castling: the rook's square too).

CanonicalStartFEN == <<"r", "n", "b", "q", "k", "b", "n", "r", "/", "p", "p", "p", "p", "p", "p", "p", "p", "/", "8", "/", "8", "/", "8", "/", "8", "/", "P", "P", "P", "P", "P", "P", "P", "P", "/", "R", "N", "B", "Q", "K", "B", "N", "R", " ", "w", " ", "K", "Q", "k", "q", " ", "-", " ", "0", " ", "1">>

PromoFEN == <<"4", "k", "3", "/", "P", "7", "/", "8", "/", "8", "/", "8", "/", "8", "/", "8", "/", "4", "K", "2", "R", " ", "w", " ", "K", " ", "-", " ", "0", " ", "1">>

\* a Chess960 set-up: the white king on f1 next to its castling target g1
FischerFEN == <<"5", "k", "2", "/", "8", "/", "8", "/", "8", "/", "8", "/", "8", "/", "8", "/", "5", "K", "1", "R", " ", "w", " ", "K", " ", "-", " ", "0", " ", "1">>

\* the piece placements of the four boards
CanonicalBoard == FenField(SplitWS(CanonicalStartFEN, <<>>, <<>>), 1)

StartBoard == FenField(SplitWS(StartFEN, <<>>, <<>>), 1)

PromoBoard == FenField(SplitWS(PromoFEN, <<>>, <<>>), 1)

FischerBoard == FenField(SplitWS(FischerFEN, <<>>, <<>>), 1)

\* squares by file 0..7 (a..h) and rank 0..7 (1..8)
Sq(f, r) == make_square(f, r)

BaseMoves(placement, side) ==
  IF placement = CanonicalBoard THEN
    IF side = <<"w">>
      THEN << make_move(Sq(3, 1), Sq(3, 3)),      \* d2d4
              make_move(Sq(4, 1), Sq(4, 3)),      \* e2e4
              make_move(Sq(6, 0), Sq(5, 2)) >>    \* g1f3
      ELSE << make_move(Sq(3, 6), Sq(3, 4)),      \* d7d5
              make_move(Sq(4, 6), Sq(4, 4)),      \* e7e5
              make_move(Sq(6, 7), Sq(5, 5)) >>    \* g8f6
  ELSE IF placement = StartBoard THEN
    IF side = <<"b">>
      THEN << make_move(Sq(4, 2), Sq(4, 1)),      \* e3e2
              make_move(Sq(3, 7), Sq(3, 2)),      \* d8d3
              make_move(Sq(7, 7), Sq(6, 7)) >>    \* h8g8
      ELSE << make_move(Sq(3, 0), Sq(3, 1)),      \* d1d2
              make_move(Sq(3, 2), Sq(3, 7)),      \* d3d8
              make_move(Sq(6, 0), Sq(5, 0)) >>    \* g1f1
  ELSE IF placement = PromoBoard THEN
    IF side = <<"w">>
      THEN << make(PROMOTION, Sq(0, 6), Sq(0, 7), 5),   \* a7a8q
              make(PROMOTION, Sq(0, 6), Sq(0, 7), 4),   \* a7a8r
              make(PROMOTION, Sq(0, 6), Sq(0, 7), 3),   \* a7a8b
              make(PROMOTION, Sq(0, 6), Sq(0, 7), 2),   \* a7a8n
              make_move(Sq(7, 0), Sq(6, 0)),            \* h1g1
              make_move(Sq(4, 0), Sq(5, 0)),            \* e1f1
              make(CASTLING, Sq(4, 0), Sq(7, 0), 2) >>  \* O-O: e1 takes h1
      ELSE << make_move(Sq(4, 7), Sq(3, 6)),      \* e8d7
              make_move(Sq(4, 7), Sq(4, 6)) >>    \* e8e7
  ELSE IF placement = FischerBoard THEN
    IF side = <<"w">>
      THEN << make_move(Sq(7, 0), Sq(7, 1)),            \* h1h2
              make_move(Sq(5, 0), Sq(4, 0)),            \* f1e1
              make_move(Sq(5, 0), Sq(6, 0)),            \* f1g1
              make(CASTLING, Sq(5, 0), Sq(7, 0), 2) >>  \* O-O: f1 takes h1
      ELSE << make_move(Sq(5, 7), Sq(4, 7)),      \* f8e8
              make_move(Sq(5, 7), Sq(6, 7)) >>    \* f8g8
  ELSE <<>>

Touched(p) == {from_sq(p.moves[k]) : k \in 1..Len(p.moves)}
                \cup {to_sq(p.moves[k]) : k \in 1..Len(p.moves)}

StillLegal(p, m) ==
  /\ from_sq(m) \notin Touched(p)
  /\ type_of(m) = CASTLING => to_sq(m) \notin Touched(p)

\* MoveList<LEGAL>(pos)
LegalMoves(p) ==
  LET base == BaseMoves(p.placement, p.side)
      RECURSIVE Keep(_)
      Keep(ms) == IF ms = <<>> THEN <<>>
                  ELSE IF StillLegal(p, Head(ms)) THEN <<Head(ms)>> \o Keep(Tail(ms))
                  ELSE Keep(Tail(ms))
  IN  Keep(base)

\* UCI::to_move
to_move(p, str) == ScanLegal(LegalMoves(p), LowerFifth(str), pos_is_chess960(p))

(***************************************************************************)
(* The heap of state lists and the handles to them                         *)
(***************************************************************************)
\* an empty StateListPtr
Null == 0

\* the address operator new returns: the lowest one not in use
FreshId(h) ==
  CHOOSE n \in 1..(Cardinality(DOMAIN h) + 1) :
    n \notin DOMAIN h /\ \A k \in 1..(n - 1) : k \in DOMAIN h

\* new std::deque<StateInfo>(1), held by one handle
Alloc(h, id) ==
  [k \in DOMAIN h \cup {id} |->
     IF k = id THEN [refs |-> 1, entries |-> <<BlankStateInfo>>] ELSE h[k]]

\* a handle lets go of its list; the last one to do so frees it
Release(h, id) ==
  IF id \notin DOMAIN h THEN h
  ELSE IF h[id].refs > 1 THEN [h EXCEPT ![id].refs = @ - 1]
  ELSE [k \in DOMAIN h \ {id} |-> h[k]]

\* a second handle to the list
Acquire(h, id) == IF id \in DOMAIN h THEN [h EXCEPT ![id].refs = @ + 1] ELSE h

\* the same assignment with the list of the handle reused instead of a new one
ResetStatesInPlace(h, S) ==
  IF S \in DOMAIN h
    THEN [heap |-> [h EXCEPT ![S].entries = <<BlankStateInfo>>], States |-> S]
    ELSE [heap |-> Alloc(h, FreshId(h)), States |-> FreshId(h)]

\* States = StateListPtr(new std::deque<StateInfo>(1))
ResetStates(h, S) ==
  LET id == FreshId(h)
  IN  [heap |-> Release(Alloc(h, id), S), States |-> id]

\* the StateInfo at States->back() is written
WriteBack(h, S, si) == [h EXCEPT ![S].entries = [@ EXCEPT ![Len(@)] = si]]

\* a push_back that adds no entry, so that do_move writes into the last one
PushBackNothing(h, S) == h

\* States->push_back(StateInfo())
PushBack(h, S) == [h EXCEPT ![S].entries = Append(@, BlankStateInfo)]

(***************************************************************************)
(* The handlers as functions of the state they read                        *)
(***************************************************************************)
\* the tokens left in a stream after n extractions
Drop(is, n) == SubSeq(is, n + 1, Len(is))

\* Options["UCI_Chess960"] read as a bool
OptionChess960(opts) == opts[kChess960] = <<"t", "r", "u", "e">>

\* while (is >> token && token != "moves") fen += token + " ";
RECURSIVE ReadFen(_, _)
ReadFen(is, fen) ==
  IF is = <<>> THEN [fen |-> fen, rest |-> <<>>]
  ELSE IF Head(is) = kMoves THEN [fen |-> fen, rest |-> Tail(is)]
  ELSE ReadFen(Tail(is), fen \o Head(is) \o <<kSpace>>)

\* the move loop of position() that does not stop at a token it cannot decode
RECURSIVE ParseMovesSkipping(_, _, _, _)
ParseMovesSkipping(p, h, S, is) ==
  IF is = <<>> THEN [pos |-> p, heap |-> h]
  ELSE LET m == to_move(p, Head(is))
       IN  IF m = MOVE_NONE THEN ParseMovesSkipping(p, h, S, Tail(is))
           ELSE ParseMovesSkipping(DoMove(p, m),
                                   WriteBack(PushBack(h, S), S, MoveStateInfo(p, m)),
                                   S, Tail(is))

\* while (is >> token && (m = UCI::to_move(pos, token)) != MOVE_NONE) { ... }
RECURSIVE ParseMoves(_, _, _, _)
ParseMoves(p, h, S, is) ==
  IF is = <<>> THEN [pos |-> p, heap |-> h]
  ELSE LET m == to_move(p, Head(is))
       IN  IF m = MOVE_NONE THEN [pos |-> p, heap |-> h]
           ELSE ParseMoves(DoMove(p, m),
                           WriteBack(PushBack(h, S), S, MoveStateInfo(p, m)),
                           S, Tail(is))

\* position() from the reset of States on: fen is set up and the moves replayed
SetUp(h, S, opts, fen, moves) ==
  LET r  == ResetStates(h, S)
      p0 == PosSet(fen, OptionChess960(opts))
      h1 == WriteBack(r.heap, r.States, RootStateInfo(p0))
      pm == ParseMoves(p0, h1, r.States, moves)
  IN  [pos |-> pm.pos, heap |-> pm.heap, States |-> r.States]

\* position() that takes a first token it does not know for "startpos"
positionDefaulting(p, h, S, opts, is) ==
  LET token == IF is = <<>> THEN <<>> ELSE Head(is)
  IN  IF token = kFen
        THEN LET f == ReadFen(Tail(is), <<>>)
             IN  SetUp(h, S, opts, f.fen, f.rest)
        ELSE SetUp(h, S, opts, StartFEN, Drop(is, 2))


\* position() that drops the token after "startpos" only when it is "moves"
positionCheckingMoves(p, h, S, opts, is) ==
  LET token == IF is = <<>> THEN <<>> ELSE Head(is)
  IN  IF token = kStartpos
        THEN SetUp(h, S, opts, StartFEN,
                   IF Len(is) >= 2 /\ is[2] = kMoves THEN Drop(is, 2) ELSE Drop(is, 1))
      ELSE IF token = kFen
        THEN LET f == ReadFen(Tail(is), <<>>)
             IN  SetUp(h, S, opts, f.fen, f.rest)
      ELSE [pos |-> p, heap |-> h, States |-> S]

\* position(pos, is)
position(p, h, S, opts, is) ==
  LET token == IF is = <<>> THEN <<>> ELSE Head(is)
  IN  IF token = kStartpos
        THEN SetUp(h, S, opts, StartFEN, Drop(is, 2))
      ELSE IF token = kFen
        THEN LET f == ReadFen(Tail(is), <<>>)
             IN  SetUp(h, S, opts, f.fen, f.rest)
      ELSE [pos |-> p, heap |-> h, States |-> S]

\* while (is >> token && token != "value") name += (name.empty() ? "" : " ") + token;
RECURSIVE ReadName(_, _)
ReadName(is, name) ==
  IF is = <<>> THEN [name |-> name, rest |-> <<>>]
  ELSE IF Head(is) = kValue THEN [name |-> name, rest |-> Tail(is)]
  ELSE ReadName(Tail(is),
                name \o (IF name = <<>> THEN <<>> ELSE <<kSpace>>) \o Head(is))

\* the value loop that leaves out the space between two tokens
RECURSIVE ReadValueNoSpace(_, _)
ReadValueNoSpace(is, value) ==
  IF is = <<>> THEN value ELSE ReadValueNoSpace(Tail(is), value \o Head(is))

\* while (is >> token) value += (value.empty() ? "" : " ") + token;
RECURSIVE ReadValue(_, _)
ReadValue(is, value) ==
  IF is = <<>> THEN value
  ELSE ReadValue(Tail(is),
                 value \o (IF value = <<>> THEN <<>> ELSE <<kSpace>>) \o Head(is))

\* Options.count(name)
OptionsCount(opts, name) == IF name \in DOMAIN opts THEN 1 ELSE 0

\* Options[name] = value
OptionsAssign(opts, name, value) ==
  [k \in DOMAIN opts \cup {name} |-> IF k = name THEN value ELSE opts[k]]

\* a line on the output channel
Line(src, text) == [src |-> src, text |-> text]

\* setoption() that assigns without asking whether the option exists
setoptionUnchecked(opts, o, is) ==
  LET n == ReadName(Drop(is, 1), <<>>)
  IN  [Options |-> OptionsAssign(opts, n.name, ReadValue(n.rest, <<>>)), out |-> o]

\* setoption(is)
setoption(opts, o, is) ==
  LET n     == ReadName(Drop(is, 1), <<>>)
      name  == n.name
      value == ReadValue(n.rest, <<>>)
  IN  IF OptionsCount(opts, name) # 0
        THEN [Options |-> OptionsAssign(opts, name, value), out |-> o]
        ELSE [Options |-> opts,
              out     |-> Append(o, Line("setoption", kNoSuchOption \o name))]

(***************************************************************************)
(* The state                                                               *)
(***************************************************************************)
VARIABLES
  pc,       \* where the control thread stands in UCI::loop and go()
  file,     \* the lines of the game file
  fens,     \* the vector ParseGameFile returned
  idx,      \* how many records the for loop has taken
  out,      \* the output channel, line by line
  Options,  \* the option store
  States,   \* the global handle to the current state list
  heap,     \* the allocated state lists: handle count and entries
  pos,      \* the Position the dispatcher passes to position()
  goPos,    \* the Position local to the running go()
  limits,   \* the LimitsType local to the running go()
  search,   \* the search engine: searches in flight and what it was handed
  ext,      \* what newgame() resets: hash table, heuristics, tablebases, nodes
  clock,    \* now()
  ncmd,     \* commands the dispatcher has handled
  last      \* the last handler that ran, with the state it found

vars == <<pc, file, fens, idx, out, Options, States, heap, pos, goPos, limits,
          search, ext, clock, ncmd, last>>

\* the FEN records a game file may hold
FenRecords == {StartFEN, PromoFEN}

GameFiles == UNION {[1..n -> FenRecords] : n \in 0..MaxFens}

\* the options the engine registers before any command is read
DefaultOptions ==
  LET names == {kHash, kSyzygyPath, kChess960, <<"C", "l", "e", "a", "r", " ", "H", "a", "s", "h">>}
  IN  [k \in names |->
         IF k = kHash THEN <<"1", "6">>
         ELSE IF k = kSyzygyPath THEN <<"<", "e", "m", "p", "t", "y", ">">>
         ELSE IF k = kChess960 THEN <<"f", "a", "l", "s", "e">>
         ELSE <<>>]

NoLimits == [startTime |-> -1]

IdleSearch == [inflight |-> 0, started |-> 0, setupStates |-> Null, rootPos |-> NoPos,
               rootEntries |-> <<>>, startTime |-> -1, startedAt |-> -1]

InitWith(files) ==
  /\ pc = "parse"
  /\ file \in files
  /\ fens = <<>>
  /\ idx = 0
  /\ out = <<>>
  /\ Options = DefaultOptions
  /\ States = 1
  /\ heap = Alloc(<<>>, 1)
  /\ pos = NoPos
  /\ goPos = NoPos
  /\ limits = NoLimits
  /\ search = IdleSearch
  /\ ext = [newgames |-> 0, ttSize |-> <<>>, clears |-> 0, tbPath |-> <<>>,
            availableNodes |-> -1]
  /\ clock = 0
  /\ ncmd = 0
  /\ last = [op |-> "none"]

Init == InitWith(GameFiles)

Tick == clock' = clock + 1

(***************************************************************************)
(* UCI::loop and go()                                                      *)
(***************************************************************************)
\* vector<string> fens = ParseGameFile(game_txt_file)
ParseGameFile ==
  /\ pc = "parse"
  /\ fens' = file
  /\ pc' = "newgame"
  /\ Tick
  /\ UNCHANGED <<file, idx, out, Options, States, heap, pos, goPos, limits,
                 search, ext, ncmd, last>>

\* UCI::loop that goes on to the for loop without the reset
newgameSkipped ==
  /\ pc = "newgame"
  /\ pc' = "for"
  /\ Tick
  /\ UNCHANGED <<file, fens, idx, out, Options, States, heap, pos, goPos,
                 limits, search, ext, ncmd, last>>

\* newgame()
newgame ==
  /\ pc = "newgame"
  /\ ext' = [newgames       |-> ext.newgames + 1,
             ttSize         |-> Options[kHash],
             clears         |-> ext.clears + 1,
             tbPath         |-> Options[kSyzygyPath],
             availableNodes |-> 0]
  /\ pc' = "for"
  /\ Tick
  /\ UNCHANGED <<file, fens, idx, out, Options, States, heap, pos, goPos,
                 limits, search, ncmd, last>>


\* a for loop that steps over a record where it can
ForNextSkipping ==
  /\ pc = "for"
  /\ idx < Len(fens)
  /\ idx' = (IF idx + 2 <= Len(fens) THEN idx + 2 ELSE idx + 1)
  /\ pc' = "go_print"
  /\ last' = [op |-> "go"]
  /\ Tick
  /\ UNCHANGED <<file, fens, out, Options, States, heap, pos, goPos, limits,
                 search, ext, ncmd>>

\* for (const auto &fen : fens): the next record is handed to go()
ForNext ==
  /\ pc = "for"
  /\ idx < Len(fens)
  /\ idx' = idx + 1
  /\ pc' = "go_print"
  /\ last' = [op |-> "go"]
  /\ Tick
  /\ UNCHANGED <<file, fens, out, Options, States, heap, pos, goPos, limits,
                 search, ext, ncmd>>

\* the for loop has run out of records: UCI::loop returns
ForExit ==
  /\ pc = "for"
  /\ idx >= Len(fens)
  /\ pc' = "done"
  /\ Tick
  /\ UNCHANGED <<file, fens, idx, out, Options, States, heap, pos, goPos,
                 limits, search, ext, ncmd, last>>

\* the argument of the running go()
GoFen == fens[idx]

\* cout << '"' << fen << '"' << ' '
GoPrint ==
  /\ pc = "go_print"
  /\ out' = Append(out, Line("go", <<kDoubleQuote>> \o GoFen \o <<kDoubleQuote, kSpace>>))
  /\ pc' = "go_reset"
  /\ Tick
  /\ UNCHANGED <<file, fens, idx, Options, States, heap, pos, goPos, limits,
                 search, ext, ncmd, last>>

\* Position pos; States = StateListPtr(new std::deque<StateInfo>(1))
GoReset ==
  /\ pc = "go_reset"
  /\ LET r == ResetStates(heap, States)
     IN  /\ States' = r.States
         /\ heap' = r.heap
  /\ goPos' = NoPos
  /\ pc' = "go_set"
  /\ Tick
  /\ UNCHANGED <<file, fens, idx, out, Options, pos, limits, search, ext,
                 ncmd, last>>

\* pos.set(fen, false, &States->back(), Threads.main())
GoSet ==
  /\ pc = "go_set"
  /\ LET p == PosSet(GoFen, FALSE)
     IN  /\ heap' = WriteBack(heap, States, RootStateInfo(p))
         /\ goPos' = p
  /\ pc' = "go_stamp"
  /\ Tick
  /\ UNCHANGED <<file, fens, idx, out, Options, States, pos, limits, search,
                 ext, ncmd, last>>


\* go() that goes on to start_thinking without stamping the limits
GoStampSkipped ==
  /\ pc = "go_stamp"
  /\ pc' = "go_start"
  /\ Tick
  /\ UNCHANGED <<file, fens, idx, out, Options, States, heap, pos, goPos,
                 limits, search, ext, ncmd, last>>

\* Search::LimitsType limits; limits.startTime = now()
GoStamp ==
  /\ pc = "go_stamp"
  /\ limits' = [startTime |-> clock]
  /\ pc' = "go_start"
  /\ Tick
  /\ UNCHANGED <<file, fens, idx, out, Options, States, heap, pos, goPos,
                 search, ext, ncmd, last>>

\* Threads.start_thinking(pos, States, limits): the engine takes its own
\* handle to the list (giving up the one of the search before) and returns
\* at once, the search running on its own thread
StartThinking(sr, h, S, p, lim, now) ==
  [search |-> [inflight    |-> sr.inflight + 1,
               started     |-> sr.started + 1,
               setupStates |-> S,
               rootPos     |-> p,
               rootEntries |-> h[S].entries,
               startTime   |-> lim.startTime,
               startedAt   |-> now],
   heap   |-> Release(Acquire(h, S), sr.setupStates)]

GoStart ==
  /\ pc = "go_start"
  /\ LET r == StartThinking(search, heap, States, goPos, limits, clock)
     IN  /\ search' = r.search
         /\ heap' = r.heap
  /\ pc' = "go_wait"
  /\ Tick
  /\ UNCHANGED <<file, fens, idx, out, Options, States, pos, goPos, limits,
                 ext, ncmd, last>>

\* go() that returns without waiting for the search
NoWait(sr) == TRUE

\* Threads.main()->wait_for_search_finished() lets the caller go on
SearchFinished(sr) == sr.inflight = 0

\* go() returns: its Position and limits are gone
GoReturn ==
  /\ pc = "go_wait"
  /\ SearchFinished(search)
  /\ goPos' = NoPos
  /\ limits' = NoLimits
  /\ pc' = "for"
  /\ Tick
  /\ UNCHANGED <<file, fens, idx, out, Options, States, heap, pos, search,
                 ext, ncmd, last>>

\* the engine: a search in flight prints its result and signals completion
SearchDone ==
  /\ search.inflight > 0
  /\ search' = [search EXCEPT !.inflight = @ - 1]
  /\ out' = Append(out, Line("search", <<"bestmove">>))
  /\ Tick
  /\ UNCHANGED <<pc, file, fens, idx, Options, States, heap, pos, goPos,
                 limits, ext, ncmd, last>>

Next ==
  \/ ParseGameFile
  \/ newgame
  \/ ForNext
  \/ ForExit
  \/ GoPrint
  \/ GoReset
  \/ GoSet
  \/ GoStamp
  \/ GoStart
  \/ GoReturn
  \/ SearchDone

Spec == Init /\ [][Next]_vars


\* the steps of the thread that runs UCI::loop
ControlNext ==
  \/ ParseGameFile
  \/ newgame
  \/ ForNext
  \/ ForExit
  \/ GoPrint
  \/ GoReset
  \/ GoSet
  \/ GoStamp
  \/ GoStart
  \/ GoReturn

\* UCI::loop on a thread that is scheduled whenever it can take a step;
\* nothing is assumed of the engine
SpecLive == Init /\ [][Next]_vars /\ WF_vars(ControlNext)

(***************************************************************************)
(* The dispatcher's handlers                                               *)
(***************************************************************************)
FenTokens(fen) == SplitWS(fen, <<>>, <<>>)

\* the argument streams of the position commands the dispatcher is given
PositionCmds ==
  { <<>>,
    <<kStartpos>>,
    <<kStartpos>> \o <<kMoves>> \o <<<<"e", "3", "e", "2">>>> \o <<<<"d", "1", "d", "2">>>> \o <<<<"z", "z", "z", "z">>>> \o <<<<"h", "8", "g", "8">>>>,
    <<kStartpos>> \o <<<<"e", "3", "e", "2">>>> \o <<<<"h", "8", "g", "8">>>>,
    <<kStartpos>> \o <<kMoves>> \o <<<<"e", "2", "e", "4">>>> \o <<<<"e", "7", "e", "5">>>> \o <<<<"z", "z", "z", "z">>>> \o <<<<"d", "2", "d", "4">>>>,
    <<kFen>> \o FenTokens(CanonicalStartFEN) \o <<kMoves>> \o <<<<"e", "2", "e", "4">>>> \o <<<<"e", "7", "e", "5">>>> \o <<<<"z", "z", "z", "z">>>> \o <<<<"d", "2", "d", "4">>>>,
    <<kFen>> \o FenTokens(PromoFEN) \o <<kMoves>> \o <<<<"a", "7", "a", "8", "Q">>>> \o <<<<"e", "8", "d", "7">>>> \o <<<<"e", "1", "g", "1">>>>,
    <<kFen>> \o FenTokens(PromoFEN) \o <<kMoves>> \o <<<<"e", "1", "h", "1">>>> \o <<<<"e", "8", "e", "7">>>>,
    <<kMoves>> \o <<<<"e", "2", "e", "4">>>> }

\* the argument streams of the setoption commands the dispatcher is given
SetoptionCmds ==
  { <<<<"n", "a", "m", "e">>>> \o <<kChess960>> \o <<kValue>> \o <<<<"t", "r", "u", "e">>>>,
    <<<<"n", "a", "m", "e">>>> \o <<kHash>>,
    <<<<"n", "a", "m", "e">>>> \o <<<<"N", "o", "t", "A", "R", "e", "a", "l", "O", "p", "t", "i", "o", "n">>>> \o <<kValue>> \o <<<<"5">>>>,
    <<<<"n", "a", "m", "e">>>> \o <<<<"C", "l", "e", "a", "r">>>> \o <<<<"H", "a", "s", "h">>>> \o <<kValue>> \o <<<<"a">>>> \o <<kValue>> \o <<<<"b">>>>,
    <<kHash>> \o <<kValue>> \o <<<<"3", "2">>>> }

\* the dispatcher runs position(pos, is)
Position ==
  /\ pc = "for"
  /\ ncmd < MaxCmds
  /\ \E is \in PositionCmds :
       LET r == position(pos, heap, States, Options, is)
       IN  /\ pos' = r.pos
           /\ heap' = r.heap
           /\ States' = r.States
           /\ last' = [op |-> "position", is |-> is, pos |-> pos, heap |-> heap,
                       States |-> States, Options |-> Options, out |-> out]
  /\ ncmd' = ncmd + 1
  /\ Tick
  /\ UNCHANGED <<pc, file, fens, idx, out, Options, goPos, limits, search, ext>>

\* the dispatcher runs setoption(is)
Setoption ==
  /\ pc = "for"
  /\ ncmd < MaxCmds
  /\ \E is \in SetoptionCmds :
       LET r == setoption(Options, out, is)
       IN  /\ Options' = r.Options
           /\ out' = r.out
           /\ last' = [op |-> "setoption", is |-> is, pos |-> pos, heap |-> heap,
                       States |-> States, Options |-> Options, out |-> out]
  /\ ncmd' = ncmd + 1
  /\ Tick
  /\ UNCHANGED <<pc, file, fens, idx, States, heap, pos, goPos, limits, search,
                 ext>>

NextDispatch ==
  \/ Next
  \/ Position
  \/ Setoption

DispatchFiles == UNION {[1..n -> FenRecords] : n \in 0..MaxDispatchFens}

InitDispatch == InitWith(DispatchFiles)

SpecDispatch == InitDispatch /\ [][NextDispatch]_vars

(***************************************************************************)
(* What the claims speak of                                                *)
(***************************************************************************)
\* the first place of tok in a stream, 0 when it is not there
FirstIndex(is, tok) ==
  IF \E j \in 1..Len(is) : is[j] = tok
    THEN CHOOSE j \in 1..Len(is) : is[j] = tok /\ \A k \in 1..(j - 1) : is[k] # tok
    ELSE 0

\* the tokens of a stream joined by single spaces
RECURSIVE JoinSp(_)
JoinSp(toks) ==
  IF toks = <<>> THEN <<>>
  ELSE IF Len(toks) = 1 THEN toks[1]
  ELSE toks[1] \o <<" ">> \o JoinSp(Tail(toks))

\* a position command that names a position to set up
IsSetUp(is) == is # <<>> /\ Head(is) \in {kStartpos, kFen}

\* a position command with a move list: "startpos moves ..." or "fen ... moves ..."
HasMoveList(is) ==
  /\ IsSetUp(is)
  /\ IF Head(is) = kStartpos THEN Len(is) >= 2 /\ is[2] = kMoves
     ELSE FirstIndex(is, kMoves) # 0

\* its move list t1..tn
MoveTokens(is) == Drop(is, FirstIndex(is, kMoves))

\* the position p was in when only its first j moves had been made
PrefixPos(p, j) ==
  [p EXCEPT !.moves = SubSeq(p.moves, 1, j),
            !.side  = IF (Len(p.moves) - j) % 2 = 0 THEN p.side ELSE OtherSide(p.side)]

\* the name and the value a setoption command spells
NameOf(is) ==
  LET rest == Drop(is, 1)
      j    == FirstIndex(rest, kValue)
  IN  JoinSp(IF j = 0 THEN rest ELSE SubSeq(rest, 1, j - 1))

ValueOf(is) ==
  LET rest == Drop(is, 1)
      j    == FirstIndex(rest, kValue)
  IN  JoinSp(IF j = 0 THEN <<>> ELSE Drop(rest, j))

\* the list the global handle refers to
CurrentList == heap[States].entries

C2_GoIsSynchronous ==
  /\ search.inflight <= 1
  /\ search.inflight = 1 => pc = "go_wait"

\* the second search of a run is in flight
C2_Witness == search.inflight = 1 /\ search.started = 2 /\ pc = "go_wait"

(***************************************************************************)
(* C3                                                                      *)
(***************************************************************************)
\* C3: while a search is in flight the Position and the state list it was
\* handed are as they were at start_thinking: same position, same handle,
\* same length and entries.
C3_LentStateUntouched ==
  search.inflight > 0 =>
    /\ goPos = search.rootPos
    /\ States = search.setupStates
    /\ States \in DOMAIN heap
    /\ CurrentList = search.rootEntries

\* a search is in flight in a session in which the dispatcher has handled a
\* position command with moves before
C3_Witness ==
  /\ search.inflight > 0
  /\ ncmd > 0
  /\ pos # NoPos
  /\ Len(pos.moves) > 0

(***************************************************************************)
(* C4                                                                      *)
(***************************************************************************)
\* C4: after a position command with move list t1..tn the position holds
\* exactly the moves of the longest prefix t1..tk in which each token decodes
\* (to_move against the position reached so far) to a legal move: the next
\* token, if any, decodes to MOVE_NONE, and the list has k + 1 entries.
C4_ReplayStopsAtGarbage ==
  (last.op = "position" /\ HasMoveList(last.is)) =>
    LET ts == MoveTokens(last.is)
        k  == Len(pos.moves)
    IN  /\ k <= Len(ts)
        /\ \A i \in 1..k :
             /\ pos.moves[i] # MOVE_NONE
             /\ pos.moves[i] = to_move(PrefixPos(pos, i - 1), ts[i])
        /\ k < Len(ts) => to_move(pos, ts[k + 1]) = MOVE_NONE
        /\ Len(CurrentList) = k + 1

\* two moves were applied, the third token is garbage and the fourth, which
\* would be legal, was not applied
C4_Witness ==
  /\ last.op = "position"
  /\ HasMoveList(last.is)
  /\ Len(MoveTokens(last.is)) = 4
  /\ Len(pos.moves) = 2
  /\ to_move(pos, MoveTokens(last.is)[3]) = MOVE_NONE
  /\ to_move(pos, MoveTokens(last.is)[4]) # MOVE_NONE

(***************************************************************************)
(* C5                                                                      *)
(***************************************************************************)
\* C5 as claimed: after a position command that set the position, the list
\* is as long as the number of half-moves applied since, and entry i is the
\* record of the i-th applied move.
C5_LengthEqualsPlies ==
  (last.op = "position" /\ IsSetUp(last.is)) =>
    /\ Len(CurrentList) = Len(pos.moves)
    /\ \A i \in 1..Len(pos.moves) : CurrentList[i].move = pos.moves[i]

\* the list behind the position that was set last: root entry first, then
\* one entry per applied move, in order
BacksPosition(list, p) ==
  /\ Len(list) = Len(p.moves) + 1
  /\ list[1] = RootStateInfo(p)
  /\ \A i \in 1..Len(p.moves) :
       list[i + 1].move = p.moves[i] /\ list[i + 1].ply = i

\* a step that is no part of setting a position leaves the entries of the
\* current list in place and can only add entries behind them
AppendOnlyStep ==
  (States' = States /\ pc # "go_set") =>
    /\ Len(heap'[States].entries) >= Len(CurrentList)
    /\ SubSeq(heap'[States].entries, 1, Len(CurrentList)) = CurrentList

\* C5 (amended): after any sequence of position and go commands the list
\* holds the root entry plus one entry per half-move applied since the last
\* command that set the position, so its length is that number plus one, and
\* entry i + 1 is the record of the i-th applied move; between two commands
\* that set the position the list only grows by appending.
C5_RootPlusPlies ==
  /\ [](States \in DOMAIN heap)
  /\ []((last.op = "position" /\ IsSetUp(last.is)) => BacksPosition(CurrentList, pos))
  /\ [](pc \in {"go_stamp", "go_start", "go_wait"} => BacksPosition(CurrentList, goPos))
  /\ []((last.op = "go" /\ pc \in {"for", "done"}) => Len(CurrentList) = 1)
  /\ [][AppendOnlyStep]_vars

\* a position command has applied two moves: three entries
C5_Witness ==
  /\ last.op = "position"
  /\ IsSetUp(last.is)
  /\ Len(pos.moves) = 2
  /\ Len(CurrentList) = 3

(***************************************************************************)
(* C6                                                                      *)
(***************************************************************************)
\* C6: "position startpos" leaves the very Position that "position fen"
\* with the FEN of the initial position of chess leaves (placement, side to
\* move, castling rights, en-passant square, counters), on a list of one
\* entry.
C6_StartposIsInitialPosition ==
  (last.op = "position" /\ last.is = <<kStartpos>>) =>
    /\ pos = position(last.pos, last.heap, last.States, last.Options,
                      <<kFen>> \o FenTokens(CanonicalStartFEN)).pos
    /\ Len(CurrentList) = 1

(***************************************************************************)
(* C7                                                                      *)
(***************************************************************************)
\* C7: a position command whose first token is neither "fen" nor "startpos"
\* (or that has no token) changes nothing: not the Position, not the handle,
\* not any list.
C7_NeitherIsNoOp ==
  (last.op = "position" /\ ~IsSetUp(last.is)) =>
    /\ pos = last.pos
    /\ States = last.States
    /\ heap = last.heap
    /\ Options = last.Options
    /\ out = last.out

\* such a command, with tokens after the first, found a position that an
\* earlier command had set up with moves
C7_Witness ==
  /\ last.op = "position"
  /\ ~IsSetUp(last.is)
  /\ Len(last.is) > 1
  /\ last.pos # NoPos
  /\ Len(last.pos.moves) > 0
  /\ Len(CurrentList) > 1

(***************************************************************************)
(* C8                                                                      *)
(***************************************************************************)
\* C8: a setoption command whose name is no key of the option store leaves
\* the store as it was (same names, same values) and puts exactly one line
\* on the output, the diagnostic naming that option; the control thread is
\* back in its loop.
C8_UnknownOptionWarns ==
  (last.op = "setoption" /\ NameOf(last.is) \notin DOMAIN last.Options) =>
    /\ Options = last.Options
    /\ DOMAIN Options = DOMAIN DefaultOptions
    /\ out = Append(last.out, Line("setoption", kNoSuchOption \o NameOf(last.is)))
    /\ pc \in {"for", "done"}

\* "setoption name NotARealOption value 5" was handled
C8_Witness ==
  /\ last.op = "setoption"
  /\ NameOf(last.is) = <<"N", "o", "t", "A", "R", "e", "a", "l", "O", "p", "t", "i", "o", "n">>
  /\ Len(out) = Len(last.out) + 1

(***************************************************************************)
(* C9                                                                      *)
(***************************************************************************)
\* C9: a setoption command whose name is a key of the option store gives
\* exactly that entry the value the command spells (the tokens after the
\* first "value" joined by single spaces, the empty string when there are
\* none), leaves every other entry and the set of names alone and prints
\* nothing.
C9_KnownOptionIsSet ==
  (last.op = "setoption" /\ NameOf(last.is) \in DOMAIN last.Options) =>
    /\ DOMAIN Options = DOMAIN last.Options
    /\ Options[NameOf(last.is)] = ValueOf(last.is)
    /\ \A k \in DOMAIN Options \ {NameOf(last.is)} : Options[k] = last.Options[k]
    /\ out = last.out

\* a name of two words was given a value of three words
C9_Witness ==
  /\ last.op = "setoption"
  /\ NameOf(last.is) = <<"C", "l", "e", "a", "r", " ", "H", "a", "s", "h">>
  /\ Options[NameOf(last.is)] = <<"a", " ", "v", "a", "l", "u", "e", " ", "b">>
  /\ last.Options[NameOf(last.is)] = <<>>

(***************************************************************************)
(* C10                                                                     *)
(***************************************************************************)
\* C10: the reset has not run before the file is parsed, and from then on
\* it has run exactly once: no record is taken, no search started and the
\* loop is not left in a state in which the reset has not happened or has
\* happened twice.
C10_ResetOnceBeforeFirstGo ==
  /\ pc \in {"parse", "newgame"} => (ext.newgames = 0 /\ search.started = 0 /\ idx = 0)
  /\ pc \notin {"parse", "newgame"} => ext.newgames = 1

\* a run over an empty batch source has ended, the reset done
C10_Witness == pc = "done" /\ fens = <<>> /\ ext.newgames = 1 /\ ext.availableNodes = 0

(***************************************************************************)
(* C11                                                                     *)
(***************************************************************************)
\* the control thread is inside go() and has not called start_thinking yet
BeforeStart == pc \in {"go_print", "go_reset", "go_set", "go_stamp", "go_start"}

\* a step that starts a search
StartsSearch == search'.started # search.started

\* C11: the searches started so far are those of the records taken so far,
\* one each and in line order (the k-th search is the one of the k-th
\* record; at the end of the loop there are as many as records); a search
\* is started only when the one before has signalled completion; and each
\* is started on a list allocated for it that nobody else holds, of one
\* entry, the root of the position built from that record's FEN.
C11_OneSearchPerRecordInOrder ==
  /\ [](search.started = (IF BeforeStart THEN idx - 1 ELSE idx))
  /\ [](search.started > 0 =>
          /\ search.rootPos = PosSet(fens[search.started], FALSE)
          /\ search.rootEntries = <<RootStateInfo(search.rootPos)>>)
  /\ [](pc = "done" => (search.started = Len(fens) /\ search.inflight = 0))
  /\ [][StartsSearch =>
          /\ search'.started = search.started + 1
          /\ search.inflight = 0
          /\ search'.setupStates = States
          /\ search'.setupStates # search.setupStates
          /\ heap[States].refs = 1
          /\ Len(heap[States].entries) = 1]_vars

\* the loop has ended after two searches, the second one that of the second
\* record, which differs from the first
C11_Witness ==
  /\ pc = "done"
  /\ search.started = 2
  /\ fens[1] # fens[2]
  /\ search.rootPos = PosSet(fens[2], FALSE)

(***************************************************************************)
(* C12                                                                     *)
(***************************************************************************)
\* the line go() prints for the k-th record
QuotedFen(k) == Line("go", <<kDoubleQuote>> \o fens[k] \o <<kDoubleQuote, kSpace>>)

\* C12: the output is the quoted FEN of record 1, the result of search 1,
\* the quoted FEN of record 2, ... : each go() has written its FEN before
\* it stamps the limits (nothing is stamped while the FEN is the last line
\* and the stamp is still to come), stamps them before it starts the search
\* (the search is started with a stamp taken earlier than its start), and
\* the result follows the FEN of its own search.
C12_PrintStampStartResult ==
  /\ \A j \in 1..Len(out) :
       IF j % 2 = 1 THEN out[j] = QuotedFen((j + 1) \div 2)
                    ELSE out[j].src = "search"
  /\ pc = "go_print" => (Len(out) = 2 * (idx - 1) /\ limits = NoLimits)
  /\ pc \in {"go_reset", "go_set", "go_stamp"} =>
       (Len(out) = 2 * idx - 1 /\ limits = NoLimits)
  /\ pc = "go_start" =>
       (Len(out) = 2 * idx - 1 /\ limits.startTime >= 0 /\ limits.startTime < clock)
  /\ pc = "go_wait" =>
       /\ Len(out) = 2 * idx - search.inflight
       /\ search.startTime = limits.startTime
       /\ search.startTime >= 0
       /\ search.startTime < search.startedAt
  /\ pc \in {"for", "done"} => Len(out) = 2 * idx

\* the second search has printed its result and go() has not returned yet
C12_Witness ==
  /\ pc = "go_wait"
  /\ search.inflight = 0
  /\ Len(out) = 4
  /\ out[3] = QuotedFen(2)
  /\ search.startTime < search.startedAt

(***************************************************************************)
(* C19                                                                     *)
(***************************************************************************)
\* every started search signals completion at some point
EverySearchCompletes == [](search.inflight > 0 => <>(search.inflight = 0))

\* C19: if every started search signals completion, UCI::loop returns,
\* having started one search per record; if the k-th search never signals
\* completion, UCI::loop never returns and no search after the k-th is
\* started: an unfinished search keeps the control thread in go()'s wait.
C19_TerminatesIffSearchesComplete ==
  /\ EverySearchCompletes => <>(pc = "done" /\ search.started = Len(fens))
  /\ \A k \in 1..MaxFens :
       <>[](search.inflight > 0 /\ search.started = k) =>
         [](pc # "done" /\ search.started <= k)
  /\ [](search.inflight > 0 => (pc = "go_wait" /\ ~ ENABLED ControlNext))

\* UCI::loop has returned from a file of two records after two searches
C19_Witness ==
  /\ pc = "done"
  /\ Len(fens) = 2
  /\ search.started = 2
  /\ search.inflight = 0

(***************************************************************************)
(* C20                                                                     *)
(***************************************************************************)
\* the tokens a position command replays: after "startpos" everything from
\* the third token on, whatever the second is; after "fen" everything after
\* the first "moves", nothing when there is none
ReplayedTokens(is) ==
  IF Head(is) = kStartpos THEN SubSeq(is, 3, Len(is))
  ELSE IF FirstIndex(is, kMoves) = 0 THEN <<>>
  ELSE SubSeq(is, FirstIndex(is, kMoves) + 1, Len(is))

\* C20: position() drops the token after "startpos" unread: the moves in
\* the position after "position startpos t1 t2 ... tn" are those of the
\* replay of t2 ... tn from the start position (longest prefix of decodable
\* tokens), so a legal move given as t1 is not applied (unless t2 spells it
\* again); after "position fen ..." they are those of the replay of the tokens after the first "moves".
C20_TokenAfterStartposDropped ==
  (last.op = "position" /\ IsSetUp(last.is)) =>
    LET ts == ReplayedTokens(last.is)
        k  == Len(pos.moves)
    IN  /\ k <= Len(ts)
        /\ \A i \in 1..k :
             /\ pos.moves[i] # MOVE_NONE
             /\ pos.moves[i] = to_move(PrefixPos(pos, i - 1), ts[i])
        /\ k < Len(ts) => to_move(pos, ts[k + 1]) = MOVE_NONE
        /\ (Head(last.is) = kStartpos /\ k >= 1 /\ last.is[3] # last.is[2]) =>
             pos.moves[1] # to_move(PrefixPos(pos, 0), last.is[2])

\* "position startpos e3e2 h8g8": e3e2, a legal move of the start position,
\* was dropped and h8g8 was played from the start position
C20_Witness ==
  /\ last.op = "position"
  /\ Len(last.is) = 3
  /\ Head(last.is) = kStartpos
  /\ last.is[2] # kMoves
  /\ to_move(PrefixPos(pos, 0), last.is[2]) # MOVE_NONE
  /\ Len(pos.moves) = 1
  /\ pos.moves[1] = to_move(PrefixPos(pos, 0), last.is[3])

(***************************************************************************)
(* UCI::value                                                              *)
(***************************************************************************)
\* types.h: the values of the score scale
VALUE_MATE == 32000

VALUE_INFINITE == 32001

MAX_PLY == 246

PawnValueEg == 208

\* int / int of C++ for a positive divisor: the quotient is cut toward zero
CDiv(a, b) == IF a >= 0 THEN a \div b ELSE -((-a) \div b)

abs(v) == IF v < 0 THEN -v ELSE v

DigitChars == <<"0", "1", "2", "3", "4", "5", "6", "7", "8", "9">>

\* ostream << int, for a number that is not negative
RECURSIVE Digits(_)
Digits(n) ==
  IF n < 10 THEN <<DigitChars[n + 1]>>
  ELSE Append(Digits(n \div 10), DigitChars[(n % 10) + 1])

\* ostream << int
Decimal(n) == IF n < 0 THEN <<"-">> \o Digits(-n) ELSE Digits(n)

kCp == <<"c", "p", " ">>

kMate == <<"m", "a", "t", "e", " ">>

\* UCI::value that takes the threshold itself for a centipawn score
valueInclusive(v) ==
  IF abs(v) <= VALUE_MATE - MAX_PLY
    THEN kCp \o Decimal(CDiv(v * 100, PawnValueEg))
    ELSE kMate \o Decimal(CDiv(IF v > 0 THEN VALUE_MATE - v + 1 ELSE -VALUE_MATE - v, 2))

\* UCI::value
value(v) ==
  IF abs(v) < VALUE_MATE - MAX_PLY
    THEN kCp \o Decimal(CDiv(v * 100, PawnValueEg))
    ELSE kMate \o Decimal(CDiv(IF v > 0 THEN VALUE_MATE - v + 1 ELSE -VALUE_MATE - v, 2))

(***************************************************************************)
(* The formatters called on their own                                      *)
(***************************************************************************)
\* Square: SQ_A1 .. SQ_H8
Squares == 0..63

\* Move: every 16 bit number
Moves == 0..65535

\* Value: what the assert at the head of UCI::value lets through
Values == (1 - VALUE_INFINITE)..(VALUE_INFINITE - 1)

\* a caller that is about to call one of the formatters
InitPure ==
  /\ pc = "call"
  /\ file = <<>>
  /\ fens = <<>>
  /\ idx = 0
  /\ out = <<>>
  /\ Options = DefaultOptions
  /\ States = 1
  /\ heap = Alloc(<<>>, 1)
  /\ pos = NoPos
  /\ goPos = NoPos
  /\ limits = NoLimits
  /\ search = IdleSearch
  /\ ext = [newgames |-> 0, ttSize |-> <<>>, clears |-> 0, tbPath |-> <<>>,
            availableNodes |-> -1]
  /\ clock = 0
  /\ ncmd = 0
  /\ last = [op |-> "none"]

\* UCI::square(s) is called
CallSquare ==
  /\ pc = "call"
  /\ \E s \in Squares : last' = [op |-> "square", s |-> s, text |-> square(s)]
  /\ pc' = "returned"
  /\ UNCHANGED <<file, fens, idx, out, Options, States, heap, pos, goPos,
                 limits, search, ext, clock, ncmd>>

\* UCI::move(m, false) and UCI::move(m, true) are called
CallMove ==
  /\ pc = "call"
  /\ \E m \in Moves :
       last' = [op |-> "move", m |-> m, std |-> move(m, FALSE), frc |-> move(m, TRUE)]
  /\ pc' = "returned"
  /\ UNCHANGED <<file, fens, idx, out, Options, States, heap, pos, goPos,
                 limits, search, ext, clock, ncmd>>

\* UCI::value(v) is called
CallValue ==
  /\ pc = "call"
  /\ \E v \in Values : last' = [op |-> "value", v |-> v, text |-> value(v)]
  /\ pc' = "returned"
  /\ UNCHANGED <<file, fens, idx, out, Options, States, heap, pos, goPos,
                 limits, search, ext, clock, ncmd>>

NextPure ==
  \/ CallSquare
  \/ CallMove
  \/ CallValue

SpecPure == InitPure /\ [][NextPure]_vars

(***************************************************************************)
(* C14                                                                     *)
(***************************************************************************)
\* C14: a castling move is printed without Chess960 as its origin square
\* and the g-file square of the origin's rank when its encoded destination
\* is greater than its origin, the c-file square of that rank otherwise,
\* and with Chess960 as its origin square and its encoded destination; a
\* move of any other kind is printed alike in both modes.
C14_CastlingDisplayModes ==
  last.op = "move" =>
    LET from == (last.m \div 64) % 64
        to   == last.m % 64
        rank == RankChars[(from \div 8) + 1]
    IN  IF last.m \div 16384 = 3
          THEN /\ last.std = square(from) \o <<(IF to > from THEN "g" ELSE "c"), rank>>
               /\ last.frc = square(from) \o square(to)
          ELSE last.std = last.frc

\* e1xh1 was printed as e1g1 and as e1h1
C14_Witness ==
  /\ last.op = "move"
  /\ last.m = make(CASTLING, 4, 7, 2)
  /\ last.std = <<"e", "1", "g", "1">>
  /\ last.frc = <<"e", "1", "h", "1">>

(***************************************************************************)
(* C15                                                                     *)
(***************************************************************************)
\* the text begins with the given word
StartsWith(text, word) ==
  Len(text) >= Len(word) /\ SubSeq(text, 1, Len(word)) = word

\* C15: a score the assert lets through is printed in the centipawn form
\* when its magnitude is below VALUE_MATE - MAX_PLY (31754) and in the mate
\* form when it is not, on the positive side as on the negative.
C15_CpBelowThresholdMateFrom ==
  last.op = "value" =>
    /\ (last.v > -31754 /\ last.v < 31754) =>
         (StartsWith(last.text, kCp) /\ ~ StartsWith(last.text, kMate))
    /\ (last.v <= -31754 \/ last.v >= 31754) =>
         (StartsWith(last.text, kMate) /\ ~ StartsWith(last.text, kCp))
    /\ VALUE_MATE - MAX_PLY = 31754

\* the lowest score of the positive mate range was printed as a mate
C15_Witness ==
  /\ last.op = "value"
  /\ last.v = VALUE_MATE - MAX_PLY
  /\ StartsWith(last.text, kMate)

(***************************************************************************)
(* C16                                                                     *)
(***************************************************************************)
\* the number of moves the claim gives for a score of the mate range
MateMoves(s) ==
  IF s > 0 THEN (VALUE_MATE - s + 1) \div 2 ELSE -((VALUE_MATE + s) \div 2)

\* C16: a score of the mate range strictly between -VALUE_MATE and
\* VALUE_MATE is printed as "mate n" with n = (VALUE_MATE - s + 1) / 2 for a
\* positive s and n = -(VALUE_MATE + s) / 2 for a negative one, and n is
\* positive for a positive s (the engine mates) and negative for a negative
\* s (the engine is mated).
C16_MateDistanceSigned ==
  (/\ last.op = "value"
   /\ abs(last.v) >= VALUE_MATE - MAX_PLY
   /\ -VALUE_MATE < last.v
   /\ last.v < VALUE_MATE) =>
    /\ last.text = kMate \o Decimal(MateMoves(last.v))
    /\ last.v > 0 => MateMoves(last.v) > 0
    /\ last.v < 0 => MateMoves(last.v) < 0

(***************************************************************************)
(* C17                                                                     *)
(***************************************************************************)
\* c - 'a' and c - '1': the place of a character in its row
CharIndex(chars, c) == (CHOOSE i \in 1..Len(chars) : chars[i] = c) - 1

\* C17: the text of a square is a file letter a-h followed by a rank digit
\* 1-8, no other square has the same text, and file = first character - 'a',
\* rank = second character - '1' give the square back.
C17_SquareBijection ==
  last.op = "square" =>
    /\ Len(last.text) = 2
    /\ last.text[1] \in {"a", "b", "c", "d", "e", "f", "g", "h"}
    /\ last.text[2] \in {"1", "2", "3", "4", "5", "6", "7", "8"}
    /\ CharIndex(RankChars, last.text[2]) * 8 + CharIndex(FileChars, last.text[1]) = last.s
    /\ \A t \in Squares \ {last.s} : square(t) # last.text

\* h8, the last square, was printed
C17_Witness ==
  /\ last.op = "square"
  /\ last.s = 63
  /\ last.text = <<"h", "8">>

(***************************************************************************)
(* to_move and move called on the positions of the dispatcher              *)
(***************************************************************************)
\* most moves replayed before the codec is called
MaxCodecPlies == 2

\* the FEN texts a position is set up from
CodecFens == {CanonicalStartFEN, StartFEN, PromoFEN, FischerFEN}

\* every move the generator lists on one of the boards
BoardMoves ==
  UNION {{BaseMoves(PosSet(f, FALSE).placement, c)[i] :
            i \in 1..Len(BaseMoves(PosSet(f, FALSE).placement, c))} :
           f \in CodecFens, c \in {<<"w">>, <<"b">>}}

\* the texts to_move is given: every move of the boards as either mode
\* prints it, the promotions with a capital letter, the two sentinel texts,
\* moves no board has, a keyword and a text that is no move at all
MoveTexts ==
  {move(m, c) : m \in BoardMoves, c \in BOOLEAN}
    \cup {<<"a", "7", "a", "8", x>> : x \in {"Q", "R", "B", "N", "K", "k"}}
    \cup {move(MOVE_NONE, FALSE), move(MOVE_NULL, FALSE), kMoves,
          <<"e", "1", "e", "2">>, <<"e", "2", "e", "5">>, <<"z", "z", "z", "z">>}

\* an engine whose UCI_Chess960 option is off or has been switched on
InitCodec ==
  /\ pc = "codec"
  /\ file = <<>>
  /\ fens = <<>>
  /\ idx = 0
  /\ out = <<>>
  /\ Options \in {DefaultOptions, OptionsAssign(DefaultOptions, kChess960, <<"t", "r", "u", "e">>)}
  /\ States = 1
  /\ heap = Alloc(<<>>, 1)
  /\ pos = NoPos
  /\ goPos = NoPos
  /\ limits = NoLimits
  /\ search = IdleSearch
  /\ ext = [newgames |-> 0, ttSize |-> <<>>, clears |-> 0, tbPath |-> <<>>,
            availableNodes |-> -1]
  /\ clock = 0
  /\ ncmd = 0
  /\ last = [op |-> "none"]

\* position(): States is reset and pos.set(fen, Options["UCI_Chess960"], ...)
CodecSet ==
  /\ pc = "codec"
  /\ pos = NoPos
  /\ \E fen \in CodecFens :
       LET r == SetUp(heap, States, Options, fen, <<>>)
       IN  /\ pos' = r.pos
           /\ heap' = r.heap
           /\ States' = r.States
  /\ UNCHANGED <<pc, file, fens, idx, out, Options, goPos, limits, search,
                 ext, clock, ncmd, last>>

\* one round of position()'s move loop on the token tok: the move is
\* applied and the loop goes on, or the loop ends
CodecReplay ==
  /\ pc = "codec"
  /\ pos # NoPos
  /\ Len(pos.moves) < MaxCodecPlies
  /\ \E tok \in MoveTexts :
       LET r == ParseMoves(pos, heap, States, <<tok>>)
       IN  /\ pos' = r.pos
           /\ heap' = r.heap
           /\ last' = [op |-> "replay", tok |-> tok, pos |-> pos]
           /\ pc' = IF r.pos = pos THEN "returned" ELSE "codec"
  /\ UNCHANGED <<file, fens, idx, out, Options, States, goPos, limits, search,
                 ext, clock, ncmd>>

\* UCI::to_move(pos, str) is called
CallToMove ==
  /\ pc = "codec"
  /\ pos # NoPos
  /\ \E str \in MoveTexts :
       last' = [op |-> "to_move", str |-> str, m |-> to_move(pos, str)]
  /\ pc' = "returned"
  /\ UNCHANGED <<file, fens, idx, out, Options, States, heap, pos, goPos,
                 limits, search, ext, clock, ncmd>>

\* UCI::to_move(pos, UCI::move(m, chess960)) is called for a legal move m
CallRoundTrip ==
  /\ pc = "codec"
  /\ pos # NoPos
  /\ \E i \in 1..Len(LegalMoves(pos)), c \in BOOLEAN :
       LET m == LegalMoves(pos)[i]
       IN  last' = [op |-> "roundtrip", m |-> m, chess960 |-> c, text |-> move(m, c),
                    back |-> to_move(pos, move(m, c))]
  /\ pc' = "returned"
  /\ UNCHANGED <<file, fens, idx, out, Options, States, heap, pos, goPos,
                 limits, search, ext, clock, ncmd>>

NextCodec ==
  \/ CodecSet
  \/ CodecReplay
  \/ CallToMove
  \/ CallRoundTrip

SpecCodec == InitCodec /\ [][NextCodec]_vars

(***************************************************************************)
(* C13                                                                     *)
(***************************************************************************)
\* C13 as claimed: whatever the flag given to UCI::move, a legal move comes
\* back from to_move on the text UCI::move made of it.
C13_RoundTripEitherFlag ==
  last.op = "roundtrip" => last.back = last.m

\* no castling move of the list starts anywhere but on the e-file
KingOnEFile(p) ==
  \A i \in 1..Len(LegalMoves(p)) :
    LegalMoves(p)[i] \div 16384 = 3 => ((LegalMoves(p)[i] \div 64) % 64) % 8 = 4

\* the position is in Chess960 mode, or it is one of standard chess
ModeFitsPosition(p) == p.chess960 \/ KingOnEFile(p)

\* C13 as it holds: when the flag given to UCI::move is the position's own
\* Chess960 mode, and the position is in Chess960 mode or castles from the
\* e-file, a legal move comes back from to_move on the text UCI::move made
\* of it, and no other move of the legal-move list has that text in that
\* mode.
C13_RoundTripInOwnMode ==
  (/\ last.op = "roundtrip"
   /\ last.chess960 = pos.chess960
   /\ ModeFitsPosition(pos)) =>
    /\ last.back = last.m
    /\ \A i \in 1..Len(LegalMoves(pos)) :
         LegalMoves(pos)[i] # last.m => move(LegalMoves(pos)[i], pos.chess960) # last.text

\* the castling move of a position in Chess960 mode, made after a move of
\* each side, came back from its text e1h1
C13_Witness ==
  /\ last.op = "roundtrip"
  /\ pos.chess960
  /\ last.chess960
  /\ Len(pos.moves) = 2
  /\ last.m = make(CASTLING, 4, 7, 2)
  /\ last.text = <<"e", "1", "h", "1">>
  /\ last.back = last.m

(***************************************************************************)
(* C18                                                                     *)
(***************************************************************************)
\* the text with a fifth character in lower case, if it has five
Lowered(str) ==
  IF Len(str) = 5 THEN SubSeq(str, 1, 4) \o <<ToLower(str[5])>> ELSE str

\* the places in the legal-move list of p of the moves that p's mode prints
\* as the text s
Hits(p, s) == {i \in 1..Len(LegalMoves(p)) : move(LegalMoves(p)[i], p.chess960) = s}

\* C18: to_move returns MOVE_NONE or a move of the legal-move list: the
\* first of the list that the position's Chess960 mode prints as the input
\* (its fifth character of five lowered), MOVE_NONE exactly when there is
\* none; "(none)" and "0000" give MOVE_NONE; an input gives what its
\* lowered form gives; and a round of position()'s move loop either leaves
\* the position alone, on a token that decodes to MOVE_NONE, or appends one
\* move of the legal-move list the position had.
C18_DecodeIsFirstLegalMatch ==
  /\ last.op = "to_move" =>
       LET h == Hits(pos, Lowered(last.str))
       IN  /\ last.m = MOVE_NONE \/ \E i \in 1..Len(LegalMoves(pos)) : LegalMoves(pos)[i] = last.m
           /\ h = {} <=> last.m = MOVE_NONE
           /\ h # {} => \E i \in h : /\ last.m = LegalMoves(pos)[i]
                                     /\ \A j \in h : i <= j
           /\ last.str \in {<<"(", "n", "o", "n", "e", ")">>, <<"0", "0", "0", "0">>} =>
                last.m = MOVE_NONE
           /\ last.m = to_move(pos, Lowered(last.str))
  /\ last.op = "replay" =>
       \/ /\ pos = last.pos
          /\ Hits(last.pos, Lowered(last.tok)) = {}
       \/ /\ Len(pos.moves) = Len(last.pos.moves) + 1
          /\ SubSeq(pos.moves, 1, Len(last.pos.moves)) = last.pos.moves
          /\ \E i \in 1..Len(LegalMoves(last.pos)) :
               LegalMoves(last.pos)[i] = pos.moves[Len(pos.moves)]

\* f1g1 in a Chess960 set-up played without Chess960 mode: the king move and
\* the castling move are both printed so, and the king move, listed first,
\* was returned
C18_Witness ==
  /\ last.op = "to_move"
  /\ last.str = <<"f", "1", "g", "1">>
  /\ ~ pos.chess960
  /\ Cardinality(Hits(pos, last.str)) = 2
  /\ last.m = make_move(5, 6)
=============================================================================
